---- MODULE Spec2Model ----
(***************************************************************************)
(* Model of the translate-bot inbox pipeline:                              *)
(*   on_create (app/activitypub/handlers.py) enqueues Create activities,   *)
(*   run_worker (workers/inbox_worker.py) drains the queue and runs        *)
(*   handle_create per item: mention filter, translate_text, actor fetch,  *)
(*   reply composition, key selection and the signed post.                 *)
(* Every await of the coroutines is a point where the model splits an      *)
(* action; the code between two awaits runs atomically (one event loop).   *)
(***************************************************************************)
EXTENDS Integers, Sequences, FiniteSets, TLC

(* ---------------------------------------------------------------------- *)
(* Bounds                                                                 *)
(* ---------------------------------------------------------------------- *)
MaxItems == 2
MaxBody == 3

(* ---------------------------------------------------------------------- *)
(* Settings (tests/conftest.py patch_settings) as character sequences      *)
(* ---------------------------------------------------------------------- *)
domain == <<"d">>
bot_username == <<"b">>
target_language == "pt"

\* f"https://{settings.domain}/users/{settings.bot_username}"
bot_actor_url == <<"https://">> \o domain \o <<"/users/">> \o bot_username

\* the actor URL of another account of the same domain whose username
\* starts with the bot's username, and of an account on another domain
sibling_actor_url == bot_actor_url \o <<"2">>
other_actor_url == <<"https://", "o", "/users/", "x">>

(* ---------------------------------------------------------------------- *)
(* Rendered bodies.  A body is a sequence of nodes of the parsed markup:   *)
(*   MB  <span class="mention"><a href=BOT>@b</a></span>                   *)
(*   MS  <span class="mention"><a href=BOT2>@b2</a></span>                 *)
(*   MO  <span class="mention"><a href=OTHER>@x</a></span>                 *)
(*   AB  <a href=BOT>@b</a>          (anchor outside a mention span)       *)
(*   UB  the bot's actor URL written as text                               *)
(*   W   the text "w"     SP  the text " "     BR  <br>                    *)
(* NoContent is a Note whose content is None.                              *)
(* ---------------------------------------------------------------------- *)
Tokens == {"MB", "MS", "MO", "AB", "UB", "W", "SP", "BR"}
NoContent == <<"None">>

RECURSIVE SeqsUpTo(_, _)
SeqsUpTo(S, n) ==
    IF n = 0 THEN {<<>>}
    ELSE LET shorter == SeqsUpTo(S, n - 1)
         IN shorter \cup {Append(s, t) : s \in {x \in shorter : Len(x) = n - 1}, t \in S}

Bodies == SeqsUpTo(Tokens, MaxBody) \cup {NoContent}

MentionSpan(href, name) ==
    <<"<span class=mention>", "<a href=">> \o href \o <<">", name, "</a>", "</span>">>

\* the markup text of one node
TokenHtml(tok) ==
    CASE tok = "MB" -> MentionSpan(bot_actor_url, "@b")
      [] tok = "MS" -> MentionSpan(sibling_actor_url, "@b2")
      [] tok = "MO" -> MentionSpan(other_actor_url, "@x")
      [] tok = "AB" -> <<"<a href=">> \o bot_actor_url \o <<">", "@b", "</a>">>
      [] tok = "UB" -> bot_actor_url
      [] tok = "W" -> <<"w">>
      [] tok = "SP" -> <<" ">>
      [] tok = "BR" -> <<"<br>">>

RECURSIVE Flatten(_)
Flatten(ss) == IF ss = <<>> THEN <<>> ELSE Head(ss) \o Flatten(Tail(ss))

\* note.content or ""
content_html(body) ==
    IF body = NoContent THEN <<>> ELSE Flatten([i \in 1..Len(body) |-> TokenHtml(body[i])])

\* Python's  needle in haystack  on strings
Contains(hay, needle) ==
    \E i \in 0..(Len(hay) - Len(needle)) :
        \A j \in 1..Len(needle) : hay[i + j] = needle[j]

\* variant: any mention span makes the post eligible
MentionsBot_AnySpan(body) ==
    body # NoContent /\ \E k \in 1..Len(body) : body[k] \in {"MB", "MS", "MO"}

\* if bot_actor_url not in content_html: return
MentionsBot(body) == Contains(content_html(body), bot_actor_url)

\* variant: only the span that mentions the bot is removed
IsMentionSpan_BotOnly(tok) == tok = "MB"

\* soup.find_all("span", {"class": "mention"})
IsMentionSpan(tok) == tok \in {"MB", "MS", "MO"}

\* the characters of the text a node carries (attributes carry none)
TokenText(tok) ==
    CASE tok = "MB" -> <<"@", "b">>
      [] tok = "MS" -> <<"@", "b", "2">>
      [] tok = "MO" -> <<"@", "x">>
      [] tok = "AB" -> <<"@", "b">>
      [] tok = "UB" -> <<"u">>
      [] tok = "W" -> <<"w">>
      [] tok = "SP" -> <<" ">>
      [] OTHER -> <<>>

\* text nodes outside an element: contiguous text is one string
IsBareText(tok) == tok \in {"UB", "W", "SP"}

\* The strings of the soup after tag.decompose() of every mention span, in
\* document order: contiguous bare text is merged into one string, an
\* element (anchor, br, removed span) ends the current string; a removed
\* span takes its text with it, any other element leaves its text.
RECURSIVE Strings(_, _)
Strings(toks, open) ==
    IF toks = <<>> THEN (IF open = <<>> THEN <<>> ELSE <<open>>)
    ELSE LET t == Head(toks)
             closed == IF open = <<>> THEN <<>> ELSE <<open>>
         IN IF IsBareText(t) THEN Strings(Tail(toks), open \o TokenText(t))
            ELSE IF IsMentionSpan(t) THEN closed \o Strings(Tail(toks), <<>>)
            ELSE IF TokenText(t) # <<>>
              THEN closed \o <<TokenText(t)>> \o Strings(Tail(toks), <<>>)
            ELSE closed \o Strings(Tail(toks), <<>>)

RECURSIVE Join(_, _)
Join(ss, sep) ==
    IF ss = <<>> THEN <<>>
    ELSE IF Len(ss) = 1 THEN ss[1]
    ELSE ss[1] \o sep \o Join(Tail(ss), sep)

RECURSIVE LStrip(_)
LStrip(s) == IF s # <<>> /\ Head(s) = " " THEN LStrip(Tail(s)) ELSE s

RECURSIVE RStrip(_)
RStrip(s) == IF s # <<>> /\ s[Len(s)] = " " THEN RStrip(SubSeq(s, 1, Len(s) - 1)) ELSE s

\* str.strip()
Strip(s) == RStrip(LStrip(s))

\* variant: the text is not stripped
plain_text_of_Unstripped(body) ==
    IF body = NoContent THEN <<>> ELSE Join(Strings(body, <<>>), <<" ">>)

\* soup.get_text(separator=" ").strip() after the mention spans are removed
plain_text_of(body) ==
    IF body = NoContent THEN <<>> ELSE Strip(Join(Strings(body, <<>>), <<" ">>))


(* ---------------------------------------------------------------------- *)
(* External collaborators: the outcomes they can produce                   *)
(* ---------------------------------------------------------------------- *)
Absent == "absent"

\* responses of the translation backend to the one request of translate_text
BackendResponses ==
    { [kind |-> "ok", status |-> 200, translatedText |-> "T", detected |-> "fr"],
      [kind |-> "ok", status |-> 200, translatedText |-> "T", detected |-> Absent],
      [kind |-> "ok", status |-> 403, translatedText |-> "", detected |-> Absent],
      [kind |-> "timeout", status |-> 0, translatedText |-> "", detected |-> Absent] }

\* variant: the target argument is ignored
target_or_default_Ignored(target) == target_language

\* target or settings.target_language: None and the empty string are falsy
target_or_default(target) ==
    IF target \in {Absent, ""} THEN target_language ELSE target

\* variant: a failed request is sent a second time
BackendRequests_Retry(r) ==
    IF r.raised # "" THEN <<r.request, r.request>> ELSE <<r.request>>

\* the requests one call of translate_text sends: client.post is awaited once
BackendRequests(r) == <<r.request>>

\* variant: the detected language is read with t["detectedSourceLanguage"]
translate_text_KeyError(text, target, resp) ==
    LET tgt == target_or_default(target)
        request == [q |-> text, target |-> tgt, format |-> "text"]
    IN IF resp.kind = "timeout"
         THEN [request |-> request, raised |-> "httpx.TimeoutException",
               translated |-> "", detected_source |-> ""]
       ELSE IF resp.status < 200 \/ resp.status > 299
         THEN [request |-> request, raised |-> "httpx.HTTPStatusError",
               translated |-> "", detected_source |-> ""]
       ELSE IF resp.detected = Absent
         THEN [request |-> request, raised |-> "KeyError",
               translated |-> "", detected_source |-> ""]
       ELSE [request |-> request, raised |-> "",
             translated |-> resp.translatedText, detected_source |-> resp.detected]

\* translate_text(text, target): the request sent, and the value returned
\* or the exception raised (raised = "" when it returns)
translate_text(text, target, resp) ==
    LET tgt == target_or_default(target)
        request == [q |-> text, target |-> tgt, format |-> "text"]
    IN IF resp.kind = "timeout"
         THEN [request |-> request, raised |-> "httpx.TimeoutException",
               translated |-> "", detected_source |-> ""]
       ELSE IF resp.status < 200 \/ resp.status > 299
         THEN [request |-> request, raised |-> "httpx.HTTPStatusError",
               translated |-> "", detected_source |-> ""]
       ELSE [request |-> request, raised |-> "",
             translated |-> resp.translatedText,
             detected_source |-> IF resp.detected = Absent THEN "?" ELSE resp.detected]

\* variant: the language codes are used as they are
Upper_AsIs(code) == code

\* str.upper() on the language codes in use
Upper(code) ==
    CASE code = "fr" -> "FR"
      [] code = "pt" -> "PT"
      [] OTHER -> code

\* Actor URLs of authors are sequences in which "/" is an element of its
\* own, so that str.split("/") and str.rstrip("/") can be computed.
Fulano == <<"https:", "/", "/", "m.example", "/", "users", "/", "fulano">>

\* the bot's own actor URL (the string bot_actor_url) as the author of an
\* inbound activity
bot_author_url == <<"https:", "/", "/">> \o domain \o <<"/", "users", "/">> \o bot_username

\* authors of inbound activities in the full system
Authors == {Fulano}

\* authors of the single activity of HandleSpec: also an actor URL with a
\* trailing slash and an identifier with fewer than three "/"-segments
HandleAuthors == {Fulano, Fulano \o <<"/">>, <<"acct:fulano">>, bot_author_url}

\* str.split(sep): the segments between the separators
RECURSIVE SplitFrom(_, _, _)
SplitFrom(s, sep, open) ==
    IF s = <<>> THEN <<open>>
    ELSE IF Head(s) = sep THEN <<open>> \o SplitFrom(Tail(s), sep, <<>>)
    ELSE SplitFrom(Tail(s), sep, Append(open, Head(s)))

Split(s, sep) == SplitFrom(s, sep, <<>>)

\* str.rstrip("/")
RECURSIVE RStripSlash(_)
RStripSlash(s) ==
    IF s # <<>> /\ s[Len(s)] = "/" THEN RStripSlash(SubSeq(s, 1, Len(s) - 1)) ELSE s

\* author_url.rstrip("/").split("/")[-1]
author_username(author_url) ==
    LET parts == Split(RStripSlash(author_url), "/") IN parts[Len(parts)]

\* author_url.split("/")[2] raises IndexError on fewer than three segments
HasDomain(author_url) == Len(Split(author_url, "/")) >= 3
author_domain(author_url) == Split(author_url, "/")[3]

\* the actor record client.actor.fetch returns for an author: the preferred
\* username keeps the case the URL has lost
PreferredUsername(author_url) ==
    IF author_username(author_url) = <<"fulano">> THEN <<"Fulano">>
    ELSE author_username(author_url)

InboxOf(author_url) == RStripSlash(author_url) \o <<"/", "inbox">>

RemoteActor(author_url) ==
    [id |-> author_url,
     preferred_username |-> PreferredUsername(author_url),
     inbox |-> InboxOf(author_url)]

\* exceptions client.actor.fetch can raise (aiohttp raises asyncio.TimeoutError
\* when its total timeout expires)
FetchFaults == {"aiohttp.ClientError", "asyncio.TimeoutError"}

\* exceptions of the post and of reading its response
PostFaults == {"connection refused", "asyncio.TimeoutError"}

\* HTTP statuses the remote inbox can answer with
PostStatuses == {202, 500}

\* key records get_bot_keys can return: key_id and the kind of private key
RsaKey == [key_id |-> "main-key", kind |-> "rsa", private_key |-> "rsa-1"]
OtherKey == [key_id |-> "ed-key", kind |-> "ed25519", private_key |-> "ed-1"]
RsaKey2 == [key_id |-> "second-key", kind |-> "rsa", private_key |-> "rsa-2"]
KeyLists == {<<>>, <<RsaKey>>, <<OtherKey>>, <<OtherKey, RsaKey2, RsaKey>>}

\* except asyncio.TimeoutError  (run_worker)
IsAsyncioTimeout(e) == e = "asyncio.TimeoutError"

(* ---------------------------------------------------------------------- *)
(* State                                                                  *)
(* ---------------------------------------------------------------------- *)
VARIABLES
    queue,        \* activity_queue: the items put and not yet got
    unfinished,   \* activity_queue's count of items put and not task_done
    pc,           \* where run_worker is
    cur,          \* the activity handle_create is running for
    loc,          \* the locals of handle_create that outlive an await
    enqueued,     \* history: every activity on_create has put, in order
    handled,      \* history: ids passed to handle_create, in order
    ended,        \* history: how each handling ended
    acked,        \* history: ids for which task_done() was called
    calls,        \* history: calls to the external collaborators
    log,          \* history: log.error records and the "sent" log.info
    outcomes,     \* history: what each external call returned or raised
    responses,    \* history: status codes on_create has answered
    lifespan      \* "running" after the yield of lifespan, "shutdown" once
                  \* worker_task.cancel() has been called

vars == <<queue, unfinished, pc, cur, loc, enqueued, handled, ended, acked,
          calls, log, outcomes, responses, lifespan>>

\* an inbound Create: id numbers the activities in the order of their
\* arrival, note_id is the identifier of its object, actor its author
Activity(n, post, actor) ==
    [id |-> n, isNote |-> post.isNote, body |-> post.body, actor |-> actor,
     note_id |-> <<"https://m.example/statuses/", n>>]

NoItem == [id |-> 0, isNote |-> FALSE, body |-> NoContent, actor |-> <<>>,
           note_id |-> <<>>]
NoLoc == [plain_text |-> <<>>, translated |-> "", source_lang |-> "",
          target_lang |-> "", inbox |-> <<>>, key_id |-> "", author_url |-> <<>>]

\* the bodies on_create receives in the full system
Posts == { [isNote |-> FALSE, body |-> NoContent],
           [isNote |-> TRUE, body |-> <<"W">>],
           [isNote |-> TRUE, body |-> <<"MB">>],
           [isNote |-> TRUE, body |-> <<"MB", "SP", "W">>] }

\* raised = "" when the call returned; status is the HTTP status of a post
\* that completed (0 otherwise); keys is what get_bot_keys returned; result
\* is the dict translate_text returned (NoResult for the other calls and
\* when it raised), sent the target language of the request translate_text
\* made to the backend ("" for the other calls)
NoResult == [translated |-> "", detected_source |-> ""]
Outcome(op, item, raised, status, keys) ==
    [op |-> op, item |-> item, raised |-> raised, status |-> status, keys |-> keys,
     result |-> NoResult, sent |-> ""]
TranslateOutcome(item, r) ==
    [Outcome("translate_text", item, r.raised, 0, <<>>) EXCEPT
        !.result = [translated |-> r.translated, detected_source |-> r.detected_source],
        !.sent = r.request.target]
Call(op, item, arg) == [op |-> op, item |-> item, arg |-> arg]
LogRec(level, src, item, msg, dest, detail) ==
    [level |-> level, src |-> src, item |-> item, msg |-> msg,
     dest |-> dest, detail |-> detail]

\* the await points of run_worker inside handle_create
InHandle == pc \in {"translate", "fetch", "post"}

\* run_worker is at the top of its loop, about to call get()
AtTop == pc \in {"idle", "repoll", "retry"}


(* ---------------------------------------------------------------------- *)
(* activity_queue (app/services/queue.py): an unbounded first-in first-out *)
(* queue, empty at start; put appends at the back, get takes the front.    *)
(* ---------------------------------------------------------------------- *)
activity_queue == <<>>
put_nowait(q, item) == Append(q, item)

\* variant: a queue of maximum size 1
QueueFull_MaxOne(q) == Len(q) >= 1

\* the queue has no maximum size: a put never finds it full
QueueFull(q) == FALSE
get_nowait(q) == [item |-> Head(q), rest |-> Tail(q)]

(* ---------------------------------------------------------------------- *)
(* Initial state: empty queue, worker at the top of its loop               *)
(* ---------------------------------------------------------------------- *)
Init ==
    /\ queue = activity_queue
    /\ unfinished = 0
    /\ pc = "idle"
    /\ cur = NoItem
    /\ loc = NoLoc
    /\ enqueued = <<>>
    /\ handled = <<>>
    /\ ended = <<>>
    /\ acked = <<>>
    /\ calls = <<>>
    /\ log = <<>>
    /\ outcomes = <<>>
    /\ responses = <<>>
    /\ lifespan = "running"

(* ---------------------------------------------------------------------- *)
(* on_create: put ctx.activity on the queue and answer 202.                *)
(* Queue.put on an unbounded queue appends, counts the item as unfinished  *)
(* and wakes the getter blocked in get().                                  *)
(* ---------------------------------------------------------------------- *)
\* variant: the context is put on the queue instead of its activity
on_create_PutsContext(post, actor) ==
    LET ctx == [activity |-> Activity(Len(enqueued) + 1, post, actor),
                request |-> "POST /users/b/inbox"]
    IN /\ Len(enqueued) < MaxItems
       /\ ~QueueFull(queue)
       /\ queue' = put_nowait(queue, ctx)
       /\ unfinished' = unfinished + 1
       /\ enqueued' = Append(enqueued, ctx.activity)
       /\ pc' = IF pc = "waiting" THEN "woken" ELSE pc
       /\ responses' = Append(responses, 202)
       /\ UNCHANGED <<cur, loc, handled, ended, acked, calls, log, outcomes, lifespan>>

on_create(post, actor) ==
    LET ctx == [activity |-> Activity(Len(enqueued) + 1, post, actor),
                request |-> "POST /users/b/inbox"]
        activity == ctx.activity
    IN /\ Len(enqueued) < MaxItems
       /\ ~QueueFull(queue)
       /\ queue' = put_nowait(queue, activity)
       /\ unfinished' = unfinished + 1
       /\ enqueued' = Append(enqueued, activity)
       /\ pc' = IF pc = "waiting" THEN "woken" ELSE pc
       /\ responses' = Append(responses, 202)
       /\ UNCHANGED <<cur, loc, handled, ended, acked, calls, log, outcomes, lifespan>>

(* ---------------------------------------------------------------------- *)
(* run_worker after handle_create has ended                                *)
(* ---------------------------------------------------------------------- *)
\* handle_create returned: activity_queue.task_done(), next iteration
ReturnedToWorker(item, newlog, newcalls) ==
    /\ unfinished' = unfinished - 1
    /\ acked' = Append(acked, item.id)
    /\ ended' = Append(ended, [item |-> item.id, how |-> "returned"])
    /\ log' = log \o newlog
    /\ calls' = calls \o newcalls
    /\ pc' = "idle"
    /\ cur' = NoItem
    /\ loc' = NoLoc

\* variant: no except clause, the fault ends the worker task
RaisedToWorker_Uncaught(item, e, newcalls) ==
    /\ ended' = Append(ended, [item |-> item.id, how |-> "raised"])
    /\ calls' = calls \o newcalls
    /\ pc' = "finished"
    /\ cur' = NoItem
    /\ loc' = NoLoc
    /\ UNCHANGED <<unfinished, acked, log>>

\* variant: the except clause swallows the fault without logging it
RaisedToWorker_Silent(item, e, newcalls) ==
    /\ ended' = Append(ended, [item |-> item.id, how |-> "raised"])
    /\ calls' = calls \o newcalls
    /\ pc' = "idle"
    /\ cur' = NoItem
    /\ loc' = NoLoc
    /\ UNCHANGED <<unfinished, acked, log>>

\* handle_create raised e: task_done() is skipped;
\* except asyncio.TimeoutError: continue / except Exception: log.error
RaisedToWorker(item, e, newcalls) ==
    /\ ended' = Append(ended, [item |-> item.id, how |-> "raised"])
    /\ log' = IF IsAsyncioTimeout(e) THEN log
              ELSE Append(log, LogRec("error", "run_worker", item.id, "Erro no worker", <<>>, e))
    /\ calls' = calls \o newcalls
    /\ pc' = "idle"
    /\ cur' = NoItem
    /\ loc' = NoLoc
    /\ UNCHANGED <<unfinished, acked>>

(* ---------------------------------------------------------------------- *)
(* handle_create up to its first await (lines 34-60)                       *)
(* ---------------------------------------------------------------------- *)
\* variant: handle_create asks for a translation into English
TargetArgument_En == "en"

\* result = await translate_text(plain_text): no target argument
TargetArgument == Absent

\* variant: the kind of the object is not tested
Eligible_AnyObject(item) ==
    /\ MentionsBot(item.body)
    /\ plain_text_of(item.body) # <<>>

Eligible(item) ==
    /\ item.isNote
    /\ MentionsBot(item.body)
    /\ plain_text_of(item.body) # <<>>

\* ctx obtained from the queue: handle_create(ctx) runs to translate_text
StartHandle(item) ==
    /\ handled' = Append(handled, item.id)
    /\ IF Eligible(item)
         THEN /\ cur' = item
              /\ loc' = [NoLoc EXCEPT !.plain_text = plain_text_of(item.body)]
              /\ calls' = Append(calls, Call("translate_text", item.id,
                                             <<plain_text_of(item.body), TargetArgument>>))
              /\ pc' = "translate"
              /\ UNCHANGED <<unfinished, acked, ended, log>>
         ELSE ReturnedToWorker(item, <<>>, <<>>)

(* ---------------------------------------------------------------------- *)
(* run_worker: await asyncio.wait_for(activity_queue.get(), timeout=5.0)   *)
(* ---------------------------------------------------------------------- *)
\* variant: the newest item is taken instead of the oldest
Dequeue_Newest ==
    /\ AtTop
    /\ queue # <<>>
    /\ queue' = SubSeq(queue, 1, Len(queue) - 1)
    /\ StartHandle(queue[Len(queue)])
    /\ UNCHANGED <<enqueued, outcomes, responses, lifespan>>

\* the queue holds an item: get() returns it at once
Dequeue ==
    /\ AtTop
    /\ queue # <<>>
    /\ queue' = get_nowait(queue).rest
    /\ StartHandle(get_nowait(queue).item)
    /\ UNCHANGED <<enqueued, outcomes, responses, lifespan>>

\* the queue is empty: get() blocks
BlockOnGet ==
    /\ AtTop
    /\ queue = <<>>
    /\ pc' = "waiting"
    /\ UNCHANGED <<queue, unfinished, cur, loc, enqueued, handled, ended, acked,
                   calls, log, outcomes, responses, lifespan>>

\* the getter woken by a put resumes and takes the item
GetResume ==
    /\ pc = "woken"
    /\ queue # <<>>
    /\ queue' = get_nowait(queue).rest
    /\ StartHandle(get_nowait(queue).item)
    /\ UNCHANGED <<enqueued, outcomes, responses, lifespan>>

\* variant: the timeout is caught by except Exception and logged as an error
DequeueTimeout_Logged ==
    /\ pc \in {"waiting", "woken"}
    /\ pc' = IF pc = "woken" THEN "retry" ELSE "repoll"
    /\ log' = Append(log, LogRec("error", "run_worker", 0, "Erro no worker", <<>>,
                                 "asyncio.TimeoutError"))
    /\ UNCHANGED <<queue, unfinished, cur, loc, enqueued, handled, ended, acked,
                   calls, outcomes, responses, lifespan>>

\* variant: a get() that was woken has already taken its item when the
\* timeout cancels it, and the item is dropped
DequeueTimeout_Drops ==
    /\ pc \in {"waiting", "woken"}
    /\ pc' = IF pc = "woken" THEN "retry" ELSE "repoll"
    /\ queue' = IF pc = "woken" THEN Tail(queue) ELSE queue
    /\ UNCHANGED <<unfinished, cur, loc, enqueued, handled, ended, acked,
                   calls, log, outcomes, responses, lifespan>>

\* the 5 s timeout fires while get() is blocked or woken and not yet
\* resumed: get() is cancelled, nothing is taken; except TimeoutError: continue.
\* "repoll" is the top of the loop when reached from a get() that timed out
\* blocked, "retry" when reached from a get() that timed out woken.
DequeueTimeout ==
    /\ pc \in {"waiting", "woken"}
    /\ pc' = IF pc = "woken" THEN "retry" ELSE "repoll"
    /\ UNCHANGED <<queue, unfinished, cur, loc, enqueued, handled, ended, acked,
                   calls, log, outcomes, responses, lifespan>>

(* ---------------------------------------------------------------------- *)
(* handle_create from translate_text to the actor fetch (lines 60-74)      *)
(* ---------------------------------------------------------------------- *)
TranslateDone(resp) ==
    LET r == translate_text(loc.plain_text, TargetArgument, resp)
    IN /\ pc = "translate"
       /\ IF r.raised # ""
            THEN /\ RaisedToWorker(cur, r.raised, <<>>)
            ELSE IF ~HasDomain(cur.actor)
            THEN /\ RaisedToWorker(cur, "IndexError", <<>>)
            ELSE /\ loc' = [loc EXCEPT !.translated = r.translated,
                                       !.source_lang = Upper(r.detected_source),
                                       !.target_lang = Upper(target_language),
                                       !.author_url = cur.actor]
                 /\ calls' = Append(calls, Call("actor.fetch", cur.id, cur.actor))
                 /\ pc' = "fetch"
                 /\ UNCHANGED <<unfinished, cur, ended, acked, log>>
       /\ outcomes' = Append(outcomes, TranslateOutcome(cur.id, r))
       /\ UNCHANGED <<queue, enqueued, handled, responses, lifespan>>

(* ---------------------------------------------------------------------- *)
(* handle_create from the actor fetch to the post (lines 74-141)           *)
(* ---------------------------------------------------------------------- *)
\* priv_key = None, key_id = None
NoKey == [key_id |-> "", kind |-> "", private_key |-> ""]

\* variant: the last RSA key of the list is taken
RECURSIVE SelectedKey_Last(_)
SelectedKey_Last(keys) ==
    IF keys = <<>> THEN NoKey
    ELSE IF keys[Len(keys)].kind = "rsa" THEN keys[Len(keys)]
    ELSE SelectedKey_Last(SubSeq(keys, 1, Len(keys) - 1))

\* for key in keys: if isinstance(key.private_key, RSAPrivateKey): ... break
\* the key record at which the loop stops
RECURSIVE SelectedKey(_)
SelectedKey(keys) ==
    IF keys = <<>> THEN NoKey
    ELSE IF Head(keys).kind = "rsa" THEN Head(keys)
    ELSE SelectedKey(Tail(keys))

\* variant: the first key is taken whatever its kind
SelectKey_First(keys) ==
    IF keys = <<>> THEN "" ELSE Head(keys).key_id

\* key_id after the loop ("" for None)
SelectKey(keys) == SelectedKey(keys).key_id

\* variant: the signature is built with the private key of the first entry
Signatures_FirstEntry(keys) ==
    << [key_id |-> SelectedKey(keys).key_id, private_key |-> Head(keys).private_key] >>

\* signatures=[ActorKey(key_id=key_id, private_key=priv_key)]
Signatures(keys) ==
    << [key_id |-> SelectedKey(keys).key_id,
        private_key |-> SelectedKey(keys).private_key] >>

\* the public collection
Public == <<"https://www.w3.org/ns/activitystreams#Public">>

\* reply_html: the mention link of the author, the language marker (the
\* element "->" stands for the arrow of the source) and the translation
reply_html(l) ==
    <<"<p>", "<span class=h-card>", "<a href=">> \o l.author_url
      \o <<" class=u-url mention>", "@">> \o author_username(l.author_url)
      \o <<"</a>", "</span>", " ", "globe", " ", "<strong>", "[", l.source_lang,
           "->", l.target_lang, "]", "</strong>", "<br>", l.translated, "</p>">>

\* variant: the reply-link names the author instead of the Note
in_reply_to_Author(activity) == [id |-> activity.actor, type |-> "Note"]

\* in_reply_to={"id": note.id, "type": "Note"}
in_reply_to(activity) == [id |-> activity.note_id, type |-> "Note"]

\* variant: the reply is addressed to the public collection
ReplyTo_Public(author_url) == <<Public>>

\* to=[author_url], cc=[Public], on the Note and on the Create alike
ReplyTo(author_url) == <<author_url>>
ReplyCc == <<Public>>

\* variant: the username is read off the author's URL
MentionName_FromUrl(author_url, remote_actor) ==
    <<"@">> \o author_username(author_url) \o <<"@">> \o author_domain(author_url)

\* tag=[{"type": "Mention", "href": author_url,
\*       "name": f"@{remote_actor.preferred_username}@{author_domain}"}]
MentionName(author_url, remote_actor) ==
    <<"@">> \o remote_actor.preferred_username \o <<"@">> \o author_domain(author_url)

ReplyTag(author_url, remote_actor) ==
    << [type |-> "Mention", href |-> author_url,
        name |-> MentionName(author_url, remote_actor)] >>

\* reply_note = Note(...): the identifier ends in a fresh uuid4
ReplyNote(activity, l, remote_actor) ==
    [id |-> bot_actor_url \o <<"/notes/", "uuid4">>,
     attributed_to |-> bot_actor_url,
     content |-> reply_html(l),
     to |-> ReplyTo(l.author_url),
     cc |-> ReplyCc,
     in_reply_to |-> in_reply_to(activity),
     tag |-> ReplyTag(l.author_url, remote_actor)]

\* reply_create = Create(...)
ReplyCreate(activity, l, remote_actor) ==
    [id |-> bot_actor_url \o <<"/creates/", "uuid4">>,
     actor |-> bot_actor_url,
     object |-> ReplyNote(activity, l, remote_actor),
     to |-> ReplyTo(l.author_url),
     cc |-> ReplyCc]

\* variant: handle_create catches the fault of the fetch, logs it and returns
FetchRaise_Swallowed(e) ==
    /\ pc = "fetch"
    /\ ReturnedToWorker(cur,
           <<LogRec("error", "handle_create", cur.id, "Erro ao buscar actor", cur.actor, e)>>,
           <<>>)
    /\ outcomes' = Append(outcomes, Outcome("actor.fetch", cur.id, e, 0, <<>>))
    /\ UNCHANGED <<queue, enqueued, handled, responses, lifespan>>

\* await client.actor.fetch(author_url) raises e: nothing in handle_create
\* catches it
FetchRaise(e) ==
    /\ pc = "fetch"
    /\ RaisedToWorker(cur, e, <<>>)
    /\ outcomes' = Append(outcomes, Outcome("actor.fetch", cur.id, e, 0, <<>>))
    /\ UNCHANGED <<queue, enqueued, handled, responses, lifespan>>

\* variant: the post is made before the keys are asked for
FetchReturn_PostFirst(keys) ==
    LET key_id == SelectKey(keys)
        remote_actor == RemoteActor(loc.author_url)
        inbox == remote_actor.inbox
        reply_create == ReplyCreate(cur, loc, remote_actor)
        keycall == Call("get_bot_keys", cur.id, <<>>)
    IN /\ pc = "fetch"
       /\ IF key_id = ""
            THEN ReturnedToWorker(cur,
                     <<LogRec("error", "handle_create", cur.id,
                              "Chave privada RSA nao encontrada", <<>>, "")>>,
                     <<keycall>>)
            ELSE /\ loc' = [loc EXCEPT !.inbox = inbox, !.key_id = key_id]
                 /\ calls' = calls \o <<Call("post", cur.id,
                             <<inbox, key_id, "draft-cavage", reply_create,
                               Signatures(keys)>>),
                        keycall>>
                 /\ pc' = "post"
                 /\ UNCHANGED <<unfinished, cur, ended, acked, log>>
       /\ outcomes' = outcomes \o <<Outcome("actor.fetch", cur.id, "", 0, <<>>),
                                     Outcome("get_bot_keys", cur.id, "", 0, keys)>>
       /\ UNCHANGED <<queue, enqueued, handled, responses, lifespan>>

FetchReturn(keys) ==
    LET key_id == SelectKey(keys)
        remote_actor == RemoteActor(loc.author_url)
        inbox == remote_actor.inbox
        reply_create == ReplyCreate(cur, loc, remote_actor)
        keycall == Call("get_bot_keys", cur.id, <<>>)
    IN /\ pc = "fetch"
       /\ IF key_id = ""
            THEN ReturnedToWorker(cur,
                     <<LogRec("error", "handle_create", cur.id,
                              "Chave privada RSA nao encontrada", <<>>, "")>>,
                     <<keycall>>)
            ELSE /\ loc' = [loc EXCEPT !.inbox = inbox, !.key_id = key_id]
                 /\ calls' = calls \o <<keycall,
                        Call("post", cur.id,
                             <<inbox, key_id, "draft-cavage", reply_create,
                               Signatures(keys)>>)>>
                 /\ pc' = "post"
                 /\ UNCHANGED <<unfinished, cur, ended, acked, log>>
       /\ outcomes' = outcomes \o <<Outcome("actor.fetch", cur.id, "", 0, <<>>),
                                     Outcome("get_bot_keys", cur.id, "", 0, keys)>>
       /\ UNCHANGED <<queue, enqueued, handled, responses, lifespan>>

(* ---------------------------------------------------------------------- *)
(* handle_create: the outcome of the post (lines 134-146)                  *)
(* ---------------------------------------------------------------------- *)
\* the post completed with a status: log.info status, log.info "enviada"
PostReturn(status) ==
    /\ pc = "post"
    /\ ReturnedToWorker(cur,
           <<LogRec("info", "handle_create", cur.id, "enviada", cur.actor, "")>>,
           <<>>)
    /\ outcomes' = Append(outcomes, Outcome("post", cur.id, "", status, <<>>))
    /\ UNCHANGED <<queue, enqueued, handled, responses, lifespan>>

\* variant: a post that failed is attempted again, up to three attempts
PostRaise_Retry(e) ==
    LET posts == {k \in 1..Len(calls) : calls[k].item = cur.id /\ calls[k].op = "post"}
        last == CHOOSE k \in posts : \A n \in posts : n <= k
    IN /\ pc = "post"
       /\ Cardinality(posts) < 3
       /\ calls' = Append(calls, calls[last])
       /\ outcomes' = Append(outcomes, Outcome("post", cur.id, e, 0, <<>>))
       /\ UNCHANGED <<queue, unfinished, pc, cur, loc, enqueued, handled, ended, acked,
                      log, responses, lifespan>>

\* variant: the post is not wrapped in try/except
PostRaise_Propagates(e) ==
    /\ pc = "post"
    /\ RaisedToWorker(cur, e, <<>>)
    /\ outcomes' = Append(outcomes, Outcome("post", cur.id, e, 0, <<>>))
    /\ UNCHANGED <<queue, enqueued, handled, responses, lifespan>>

\* except Exception as e: log.error("Erro ao entregar resposta para ...")
PostRaise(e) ==
    /\ pc = "post"
    /\ ReturnedToWorker(cur,
           <<LogRec("error", "handle_create", cur.id, "Erro ao entregar resposta",
                    cur.actor, e)>>,
           <<>>)
    /\ outcomes' = Append(outcomes, Outcome("post", cur.id, e, 0, <<>>))
    /\ UNCHANGED <<queue, enqueued, handled, responses, lifespan>>

(* ---------------------------------------------------------------------- *)
(* lifespan shutdown: worker_task.cancel(), called once.  CancelledError   *)
(* is raised at the await the worker is suspended in; neither except       *)
(* clause of run_worker, nor the except Exception around the post, catches *)
(* it.                                                                     *)
(* ---------------------------------------------------------------------- *)
\* variant: the CancelledError raised in the dequeue wait is caught like the
\* timeout, and the loop goes on
CancelDelivered_Caught ==
    /\ lifespan = "running"
    /\ pc # "cancelled"
    /\ lifespan' = "shutdown"
    /\ pc' = IF pc \in {"waiting", "woken"} THEN "repoll"
             ELSE IF InHandle THEN "cancelled" ELSE pc
    /\ ended' = IF InHandle THEN Append(ended, [item |-> cur.id, how |-> "cancelled"])
                ELSE ended
    /\ cur' = NoItem
    /\ loc' = NoLoc
    /\ UNCHANGED <<queue, unfinished, enqueued, handled, acked, calls, log, outcomes,
                   responses>>

\* variant: the item that woke the get() is taken from the queue and its
\* result is dropped with the cancellation
CancelDelivered_LosesItem ==
    /\ lifespan = "running"
    /\ pc # "cancelled"
    /\ lifespan' = "shutdown"
    /\ pc' = "cancelled"
    /\ ended' = IF InHandle THEN Append(ended, [item |-> cur.id, how |-> "cancelled"])
                ELSE ended
    /\ queue' = IF pc = "woken" THEN get_nowait(queue).rest ELSE queue
    /\ cur' = NoItem
    /\ loc' = NoLoc
    /\ UNCHANGED <<unfinished, enqueued, handled, acked, calls, log, outcomes,
                   responses>>

\* the worker task ends; the item in hand, if any, is dropped where it is
CancelDelivered ==
    /\ lifespan = "running"
    /\ pc # "cancelled"
    /\ lifespan' = "shutdown"
    /\ pc' = "cancelled"
    /\ ended' = IF InHandle THEN Append(ended, [item |-> cur.id, how |-> "cancelled"])
                ELSE ended
    /\ cur' = NoItem
    /\ loc' = NoLoc
    /\ UNCHANGED <<queue, unfinished, enqueued, handled, acked, calls, log, outcomes,
                   responses>>

\* cancel() arrives when a put has already woken the get(): asyncio.wait_for
\* of Python 3.11 and earlier finds its inner get() done, returns the item and
\* drops the cancellation, so the worker runs on; wait_for of Python 3.12
\* raises CancelledError (CancelDelivered), the item staying in the queue.
CancelLostInWakeup ==
    /\ lifespan = "running"
    /\ pc = "woken"
    /\ lifespan' = "shutdown"
    /\ queue' = get_nowait(queue).rest
    /\ StartHandle(get_nowait(queue).item)
    /\ UNCHANGED <<enqueued, outcomes, responses>>

Cancel ==
    \/ CancelDelivered
    \/ CancelLostInWakeup

(* ---------------------------------------------------------------------- *)
(* The system                                                             *)
(* ---------------------------------------------------------------------- *)
\* In the full system the backend answers with a detected language, with a
\* 403 or not at all, and the bot has its RSA key or no key; HandleSpec below
\* runs one activity over every response and every key list.
SysBackendResponses == {r \in BackendResponses : r.status # 200 \/ r.detected # Absent}
SysKeyLists == {keys \in KeyLists : Len(keys) <= 1 /\ OtherKey \notin {keys[k] : k \in 1..Len(keys)}}

Worker ==
    \/ Dequeue
    \/ BlockOnGet
    \/ GetResume
    \/ DequeueTimeout
    \/ \E resp \in SysBackendResponses : TranslateDone(resp)
    \/ \E e \in FetchFaults : FetchRaise(e)
    \/ \E keys \in SysKeyLists : FetchReturn(keys)
    \/ \E status \in PostStatuses : PostReturn(status)
    \/ \E e \in PostFaults : PostRaise(e)

Next ==
    \/ \E post \in Posts, actor \in Authors : on_create(post, actor)
    \/ Worker
    \/ Cancel

Spec == Init /\ [][Next]_vars


\* The event loop resumes the worker whenever it can take a step, and every
\* external call returns or raises (each has a timeout of its own).
FairSpec == Spec /\ WF_vars(Worker)

(* ---------------------------------------------------------------------- *)
(* One activity, any body: the filter of handle_create over all bodies     *)
(* ---------------------------------------------------------------------- *)
\* every body from the plain author, and the bodies of Posts from every author:
\* what handle_create does with the body does not depend on the author
HandleInputs ==
    {[body |-> body, actor |-> Fulano] : body \in Bodies}
        \cup {[body |-> post.body, actor |-> actor] : post \in Posts, actor \in HandleAuthors}

HandleInit ==
    \E isNote \in BOOLEAN, input \in HandleInputs :
        LET activity == Activity(1, [isNote |-> isNote, body |-> input.body], input.actor)
        IN /\ queue = <<activity>>
           /\ unfinished = 1
           /\ pc = "idle"
           /\ cur = NoItem
           /\ loc = NoLoc
           /\ enqueued = <<activity>>
           /\ handled = <<>>
           /\ ended = <<>>
           /\ acked = <<>>
           /\ calls = <<>>
           /\ log = <<>>
           /\ outcomes = <<>>
           /\ responses = <<202>>
           /\ lifespan = "running"

HandleNext ==
    \/ Dequeue
    \/ BlockOnGet
    \/ DequeueTimeout
    \/ \E resp \in BackendResponses : TranslateDone(resp)
    \/ \E e \in FetchFaults : FetchRaise(e)
    \/ \E keys \in KeyLists : FetchReturn(keys)
    \/ \E status \in PostStatuses : PostReturn(status)
    \/ \E e \in PostFaults : PostRaise(e)

HandleSpec == HandleInit /\ [][HandleNext]_vars

(* ---------------------------------------------------------------------- *)
(* Helpers of the properties                                              *)
(* ---------------------------------------------------------------------- *)
Ids == 1..Len(enqueued)
InSeq(x, seq) == \E k \in 1..Len(seq) : seq[k] = x
Count(x, seq) == Cardinality({k \in 1..Len(seq) : seq[k] = x})
Queued(i) == \E k \in 1..Len(queue) : queue[k].id = i
Handled(i) == InSeq(i, handled)
EndedAs(i, how) == \E k \in 1..Len(ended) : ended[k].item = i /\ ended[k].how = how
CallsOf(i, op) == {k \in 1..Len(calls) : calls[k].item = i /\ calls[k].op = op}
ErrorsOf(i, src) ==
    {k \in 1..Len(log) : log[k].item = i /\ log[k].level = "error" /\ log[k].src = src}
\* Every activity enqueued so far has been passed to handle_create, or the
\* worker has been cancelled.  Handled and cancelled are both permanent, so
\* "again and again AllHandledOrCancelled" says that each enqueued activity
\* is eventually passed to handle_create unless the worker is cancelled.
AllHandledOrCancelled == pc = "cancelled" \/ \A i \in Ids : Handled(i)
WorkerAlive == AtTop \/ InHandle \/ pc \in {"waiting", "woken"}

(* ---------------------------------------------------------------------- *)
(* C1: when handle_create raises a fault for an item, run_worker goes back *)
(* to the dequeue step, and every item that is in the queue after a fault  *)
(* is later passed to handle_create (unless the worker is cancelled).      *)
(* The second conjunct states the latter as a recurrence: after a fault,   *)
(* again and again every enqueued item has been passed to handle_create.   *)
(* ---------------------------------------------------------------------- *)
C1_ContinuesAfterFault ==
    /\ [][(Len(ended') > Len(ended) /\ ended'[Len(ended')].how = "raised")
            => pc' = "idle"]_vars
    /\ []<>((\E j \in Ids : EndedAs(j, "raised")) => AllHandledOrCancelled)

\* an item was passed to handle_create after an earlier item's fault
C1_Witness ==
    \E i \in Ids, j \in Ids : i < j /\ EndedAs(i, "raised") /\ Handled(j)


(* ---------------------------------------------------------------------- *)
(* C2: every item whose handling has ended, by a return or by a fault, has *)
(* been acknowledged (task_done) exactly once, so the unfinished count is  *)
(* the number of enqueued items whose handling has not ended.              *)
(* ---------------------------------------------------------------------- *)
C2_AckEveryEnded ==
    /\ \A k \in 1..Len(ended) :
          ended[k].how \in {"returned", "raised"} => Count(ended[k].item, acked) = 1
    /\ WorkerAlive => unfinished = Len(queue) + (IF InHandle THEN 1 ELSE 0)

(* ---------------------------------------------------------------------- *)
(* C3: for every fault handle_create raises, whatever its class,           *)
(* run_worker has recorded an error log entry for that item by the time    *)
(* it is back at the dequeue step.                                         *)
(* ---------------------------------------------------------------------- *)
C3_EveryFaultLogged ==
    \A k \in 1..Len(ended) :
        ended[k].how = "raised" => ErrorsOf(ended[k].item, "run_worker") # {}

(* ---------------------------------------------------------------------- *)
(* C4: items are passed to handle_create in the order of their enqueue,    *)
(* the handling of an item starts only after the handling of the one       *)
(* before it has ended, and so the external calls made for a later item    *)
(* all come after those made for an earlier item.                          *)
(* ---------------------------------------------------------------------- *)
C4_FifoSerial ==
    /\ Len(handled) <= Len(enqueued)
    /\ \A k \in 1..Len(handled) : handled[k] = enqueued[k].id
    /\ Len(handled) = Len(ended) + (IF InHandle THEN 1 ELSE 0)
    /\ \A k \in 1..Len(ended) : ended[k].item = handled[k]
    /\ \A a \in 1..Len(calls), b \in 1..Len(calls) :
          a < b => calls[a].item <= calls[b].item

\* a slow item (one with external calls) followed by a second item, both
\* handled, the second enqueued while the first was still being handled or
\* queued
C4_Witness ==
    /\ Len(ended) >= 2
    /\ CallsOf(handled[1], "post") # {}
    /\ Handled(2)

(* ---------------------------------------------------------------------- *)
(* C5: while the worker is not cancelled, every enqueued activity has been *)
(* passed to handle_create exactly once or is still in the queue, also     *)
(* when a put coincides with the dequeue timeout; and each one is          *)
(* eventually passed to handle_create.                                     *)
(* ---------------------------------------------------------------------- *)
C5_ExactlyOnce ==
    /\ [](pc # "cancelled" =>
            /\ [k \in 1..Len(enqueued) |-> enqueued[k].id]
                  = handled \o [k \in 1..Len(queue) |-> queue[k].id]
            /\ \A i \in Ids : Count(i, handled) <= 1)
    /\ []<>AllHandledOrCancelled

\* the timeout has just fired on a get() that a put had already woken: the
\* activity put is still the only one in the queue, after another activity
\* was handled
C5_Witness ==
    /\ pc = "retry"
    /\ Len(handled) >= 1
    /\ Len(queue) = 1
    /\ queue[1].id = Len(handled) + 1

(* ---------------------------------------------------------------------- *)
(* C6: a Create whose Note body does not contain the bot's actor URL       *)
(* (a Note with no content included) causes no external call and no error  *)
(* log, and its handling returns normally.                                 *)
(* ---------------------------------------------------------------------- *)
C6_NoMentionNoEffect ==
    \A i \in Ids :
        (enqueued[i].isNote /\ ~Contains(content_html(enqueued[i].body), bot_actor_url)) =>
            /\ \A k \in 1..Len(calls) : calls[k].item # i
            /\ \A k \in 1..Len(outcomes) : outcomes[k].item # i
            /\ \A k \in 1..Len(log) : log[k].item # i
            /\ Handled(i) => EndedAs(i, "returned")

\* a Note with text that mentions another account only has been handled
C6_Witness ==
    \E i \in Ids :
        /\ enqueued[i].isNote
        /\ enqueued[i].body = <<"MO", "SP", "W">>
        /\ EndedAs(i, "returned")

(* ---------------------------------------------------------------------- *)
(* C7: the text passed to translate_text is never empty nor only white     *)
(* space; a post that mentions the bot and has nothing but mention spans,  *)
(* white space and tags causes no translation and no delivery.             *)
(* ---------------------------------------------------------------------- *)
OnlyMentionMarkup(body) ==
    /\ body # NoContent
    /\ \A k \in 1..Len(body) : body[k] \in {"MB", "MS", "MO", "SP", "BR"}
    /\ \E k \in 1..Len(body) : body[k] = "MB"

C7_NeverTranslateEmpty ==
    /\ \A k \in 1..Len(calls) :
          calls[k].op = "translate_text" =>
              \E c \in 1..Len(calls[k].arg[1]) : calls[k].arg[1][c] # " "
    /\ \A i \in Ids :
          (enqueued[i].isNote /\ OnlyMentionMarkup(enqueued[i].body)) =>
              /\ \A k \in 1..Len(calls) : calls[k].item # i
              /\ \A k \in 1..Len(log) : log[k].item # i
              /\ Handled(i) => EndedAs(i, "returned")

\* a post made of the bot mention and white space has been handled
C7_Witness ==
    \E i \in Ids :
        /\ enqueued[i].isNote
        /\ enqueued[i].body = <<"MB", "SP">>
        /\ EndedAs(i, "returned")


(* ---------------------------------------------------------------------- *)
(* C8: when translate_text raises for an item, the fault reaches           *)
(* run_worker, which logs it; no actor fetch, key retrieval or post is     *)
(* made for that item; and an item queued behind it is still passed to     *)
(* handle_create.                                                          *)
(* ---------------------------------------------------------------------- *)
TranslateFailed(i) ==
    \E k \in 1..Len(outcomes) :
        outcomes[k].item = i /\ outcomes[k].op = "translate_text" /\ outcomes[k].raised # ""

C8_TranslateFaultContained ==
    /\ [](\A i \in Ids : TranslateFailed(i) =>
            /\ EndedAs(i, "raised")
            /\ \E k \in ErrorsOf(i, "run_worker") :
                  \E o \in 1..Len(outcomes) :
                      /\ outcomes[o].item = i
                      /\ outcomes[o].op = "translate_text"
                      /\ log[k].detail = outcomes[o].raised
            /\ CallsOf(i, "actor.fetch") = {}
            /\ CallsOf(i, "get_bot_keys") = {}
            /\ CallsOf(i, "post") = {})
    /\ []<>((\E i \in Ids : TranslateFailed(i)) => AllHandledOrCancelled)

\* the translation of the first item failed and the second was handled
C8_Witness ==
    /\ Len(enqueued) >= 2
    /\ TranslateFailed(1)
    /\ Handled(2)

(* ---------------------------------------------------------------------- *)
(* C9: when the post raises after a successful translation, handle_create  *)
(* logs exactly one error, with the destination and the error detail, and  *)
(* returns normally: run_worker sees no exception, acknowledges the item   *)
(* and passes the next queued item to handle_create.                       *)
(* ---------------------------------------------------------------------- *)
PostFailed(i) ==
    \E k \in 1..Len(outcomes) :
        outcomes[k].item = i /\ outcomes[k].op = "post" /\ outcomes[k].raised # ""

C9_PostFaultSwallowed ==
    /\ [](\A i \in Ids : PostFailed(i) =>
            /\ EndedAs(i, "returned")
            /\ Count(i, acked) = 1
            /\ ErrorsOf(i, "run_worker") = {}
            /\ Cardinality(ErrorsOf(i, "handle_create")) = 1
            /\ \A k \in ErrorsOf(i, "handle_create") :
                  /\ log[k].dest = enqueued[i].actor
                  /\ \E o \in 1..Len(outcomes) :
                        /\ outcomes[o].item = i
                        /\ outcomes[o].op = "post"
                        /\ log[k].detail = outcomes[o].raised
                        /\ log[k].detail # "")
    /\ []<>((\E i \in Ids : PostFailed(i)) => AllHandledOrCancelled)

\* the post for the first item raised and the second item was handled
C9_Witness ==
    /\ Len(enqueued) >= 2
    /\ PostFailed(1)
    /\ Handled(2)

(* ---------------------------------------------------------------------- *)
(* C10: a post that completes with a non-success HTTP status is handled    *)
(* as a transmission fault: handle_create logs an error with the           *)
(* destination and a detail, does not log the translation as sent, and     *)
(* returns normally.                                                       *)
(* ---------------------------------------------------------------------- *)
PostRejected(i) ==
    \E k \in 1..Len(outcomes) :
        /\ outcomes[k].item = i
        /\ outcomes[k].op = "post"
        /\ outcomes[k].raised = ""
        /\ (outcomes[k].status < 200 \/ outcomes[k].status > 299)

C10_BadStatusIsFault ==
    \A i \in Ids : PostRejected(i) =>
        /\ EndedAs(i, "returned")
        /\ \E k \in ErrorsOf(i, "handle_create") :
              log[k].dest = enqueued[i].actor /\ log[k].detail # ""
        /\ \A k \in 1..Len(log) : ~(log[k].item = i /\ log[k].msg = "enviada")

(* ---------------------------------------------------------------------- *)
(* C11: when get_bot_keys returns no key with an RSA private key (an empty *)
(* list, or only keys of other kinds), handle_create logs an error, makes  *)
(* no transmission attempt and returns normally: nothing is raised to      *)
(* run_worker.                                                             *)
(* ---------------------------------------------------------------------- *)
NoRsaKey(keys) == \A k \in 1..Len(keys) : keys[k].kind # "rsa"

C11_NoKeyNoPost ==
    \A k \in 1..Len(outcomes) :
        (outcomes[k].op = "get_bot_keys" /\ NoRsaKey(outcomes[k].keys)) =>
            LET i == outcomes[k].item
            IN /\ CallsOf(i, "post") = {}
               /\ \E e \in ErrorsOf(i, "handle_create") :
                      log[e].msg = "Chave privada RSA nao encontrada"
               /\ EndedAs(i, "returned")
               /\ ~EndedAs(i, "raised")
               /\ ErrorsOf(i, "run_worker") = {}

\* the key lookup has returned a list holding only a key that is not RSA
C11_Witness ==
    \E k \in 1..Len(outcomes) :
        outcomes[k].op = "get_bot_keys" /\ outcomes[k].keys = <<OtherKey>>

(* ---------------------------------------------------------------------- *)
(* C12: for each enqueued activity translate_text is called at most once   *)
(* and a transmission is attempted at most once; an item is passed to      *)
(* handle_create at most once, and an item whose handling has ended, by a  *)
(* return, a fault or a cancellation, is neither put back on the queue nor *)
(* taken up again.                                                         *)
(* ---------------------------------------------------------------------- *)
C12_AtMostOnce ==
    /\ \A i \in Ids :
          /\ Cardinality(CallsOf(i, "translate_text")) <= 1
          /\ Cardinality(CallsOf(i, "post")) <= 1
          /\ Count(i, handled) + Cardinality({k \in 1..Len(queue) : queue[k].id = i}) <= 1
    /\ \A k \in 1..Len(ended) :
          /\ ~Queued(ended[k].item)
          /\ cur.id # ended[k].item
          /\ Cardinality({n \in 1..Len(ended) : ended[n].item = ended[k].item}) = 1

\* an item whose post failed has been given up, and the worker has handled
\* a later item since
C12_Witness ==
    \E i \in Ids, j \in Ids :
        i < j /\ PostFailed(i) /\ EndedAs(j, "returned") /\ queue = <<>>

C14_InFlightNotLost ==
    \A k \in 1..Len(ended) :
        ended[k].how = "cancelled" =>
            LET i == ended[k].item
            IN /\ \/ \E o \in 1..Len(outcomes) :
                        outcomes[o].item = i /\ outcomes[o].op = "post"
                  \/ ErrorsOf(i, "handle_create") \cup ErrorsOf(i, "run_worker") # {}
               /\ ~Queued(i)
               /\ cur.id # i

(* ---------------------------------------------------------------------- *)
(* C15: when the dequeue wait times out with the queue empty, run_worker   *)
(* goes back to the top of its loop and polls again: handle_create is not  *)
(* called, nothing is acknowledged, nothing is logged, and the queue is    *)
(* left as it was.                                                         *)
(* ---------------------------------------------------------------------- *)
C15_TimeoutRepolls ==
    /\ [][(pc = "waiting" /\ queue = <<>> /\ queue' = <<>> /\ pc' # "waiting"
             /\ lifespan' = lifespan)
            => /\ pc' = "repoll"
               /\ UNCHANGED <<queue, unfinished, cur, handled, ended, acked, calls,
                              log, outcomes>>]_vars
    /\ [](pc = "repoll" => cur = NoItem)
    /\ [][(pc = "repoll" /\ queue = <<>> /\ pc' # pc /\ lifespan' = lifespan)
            => (pc' = "waiting" /\ UNCHANGED <<handled, acked, log>>)]_vars

\* the dequeue wait has timed out on an empty queue after an item was
\* handled, and the worker is about to poll again
C15_Witness ==
    /\ pc = "repoll"
    /\ queue = <<>>
    /\ Len(handled) >= 1

(* ---------------------------------------------------------------------- *)
(* C16: for every Create it receives, on_create puts exactly the activity  *)
(* (ctx.activity, not the context around it) at the back of the queue and  *)
(* answers 202; it translates nothing, resolves no actor and delivers      *)
(* nothing itself, and its answer is given before handle_create is called  *)
(* for that activity.                                                      *)
(* ---------------------------------------------------------------------- *)
C16_EnqueueAndAccept ==
    /\ [][Len(enqueued') > Len(enqueued) =>
            LET activity == enqueued'[Len(enqueued')]
            IN /\ Len(enqueued') = Len(enqueued) + 1
               /\ queue' = Append(queue, activity)
               /\ DOMAIN activity = DOMAIN NoItem
               /\ responses' = Append(responses, 202)
               /\ UNCHANGED <<handled, ended, acked, calls, log, outcomes, cur, loc>>]_vars
    /\ [](Len(responses) = Len(enqueued))
    /\ [](\A k \in 1..Len(responses) : responses[k] = 202)
    /\ [](\A k \in 1..Len(handled) : handled[k] <= Len(responses))

\* on_create has answered for an activity that is still in the queue while
\* the worker is busy with an earlier one
C16_Witness ==
    /\ InHandle
    /\ Len(responses) = 2
    /\ Len(queue) = 1
    /\ queue[1] = enqueued[2]
    /\ ~Handled(2)

(* ---------------------------------------------------------------------- *)
(* C17: the put of on_create never blocks: whatever the length of the      *)
(* queue, and whether the worker is idle, in the middle of an item,        *)
(* cancelled or otherwise not running, on_create can take its step (up to  *)
(* the number of activities the model admits).                             *)
(* ---------------------------------------------------------------------- *)
C17_EnqueueNeverBlocks ==
    Len(enqueued) < MaxItems =>
        ENABLED (\E post \in Posts, actor \in Authors : on_create(post, actor))

\* the worker is gone and the queue holds every activity of the run: each
\* put after the first found the queue non-empty and nobody consuming it
C17_Witness ==
    /\ pc = "cancelled"
    /\ handled = <<>>
    /\ Len(queue) = MaxItems

(* ---------------------------------------------------------------------- *)
(* The replies handed to client.post                                       *)
(* ---------------------------------------------------------------------- *)
PostCalls == {k \in 1..Len(calls) : calls[k].op = "post"}
ReplyOf(k) == calls[k].arg[4]
TriggerOf(k) == enqueued[calls[k].item]

(* ---------------------------------------------------------------------- *)
(* C18: every reply handle_create hands to the post carries a reply-link   *)
(* that is not empty and whose id is the identifier of the Note that       *)
(* triggered it.                                                           *)
(* ---------------------------------------------------------------------- *)
C18_ReplyLinksTrigger ==
    \A k \in PostCalls :
        LET link == ReplyOf(k).object.in_reply_to
        IN /\ link.id # <<>>
           /\ link.id = TriggerOf(k).note_id
           /\ link.type = "Note"

\* a reply has been handed to the post
C18_Witness ==
    \E k \in PostCalls : ReplyOf(k).object.in_reply_to.id = enqueued[1].note_id

(* ---------------------------------------------------------------------- *)
(* C19: in every reply the Note and the Create around it both have the     *)
(* author of the triggering activity as their only direct recipient and    *)
(* the public collection as their only carbon-copy recipient.              *)
(* ---------------------------------------------------------------------- *)
C19_AddressedToAuthor ==
    \A k \in PostCalls :
        LET create == ReplyOf(k)
            author == TriggerOf(k).actor
        IN /\ create.to = <<author>>
           /\ create.cc = <<Public>>
           /\ create.object.to = <<author>>
           /\ create.object.cc = <<Public>>

\* a reply to an author whose identifier ends in a slash: the recipient is
\* the identifier as it was received
C19_Witness ==
    \E k \in PostCalls :
        /\ TriggerOf(k).actor = Fulano \o <<"/">>
        /\ ReplyOf(k).to = <<Fulano \o <<"/">>>>

(* ---------------------------------------------------------------------- *)
(* C20: every reply carries exactly one Mention annotation; its target is  *)
(* the identifier of the author, and its display name is "@", the          *)
(* preferred username of the actor record fetched for the author, "@", and *)
(* the domain of the author's identifier (its third "/"-segment).          *)
(* ---------------------------------------------------------------------- *)
C20_OneMentionOfAuthor ==
    \A k \in PostCalls :
        LET tag == ReplyOf(k).object.tag
            author == TriggerOf(k).actor
        IN /\ Len(tag) = 1
           /\ tag[1].type = "Mention"
           /\ tag[1].href = author
           /\ tag[1].name = <<"@">> \o RemoteActor(author).preferred_username
                               \o <<"@">> \o Split(author, "/")[3]
           /\ author_username(author) = <<"fulano">> =>
                  tag[1].name = <<"@", "Fulano", "@", "m.example">>

\* a reply whose mention names the author as the actor record spells it,
\* not as the URL does
C20_Witness ==
    \E k \in PostCalls :
        /\ ReplyOf(k).object.tag[1].name = <<"@", "Fulano", "@", "m.example">>
        /\ author_username(TriggerOf(k).actor) = <<"fulano">>

(* ---------------------------------------------------------------------- *)
(* What translate_text returned for the item of a post                     *)
(* ---------------------------------------------------------------------- *)
TranslationOf(i) ==
    LET k == CHOOSE n \in 1..Len(outcomes) :
                 outcomes[n].item = i /\ outcomes[n].op = "translate_text"
    IN outcomes[k].result

\* the upper-cased form of the language codes the backend reports
UpperCased(code) == IF code = "fr" THEN "FR" ELSE IF code = "pt" THEN "PT" ELSE code

(* ---------------------------------------------------------------------- *)
(* C21: the body of every reply contains the translated text as            *)
(* translate_text returned it, and the marker [SRC -> DST] whose SRC is    *)
(* the detected source language in upper case and whose DST is the         *)
(* configured target language in upper case: "fr" and "pt" give            *)
(* [FR -> PT].                                                             *)
(* ---------------------------------------------------------------------- *)
C21_BodyHasTextAndMarker ==
    \A k \in PostCalls :
        LET content == ReplyOf(k).object.content
            result == TranslationOf(calls[k].item)
        IN /\ Contains(content, <<result.translated>>)
           /\ Contains(content, <<"[", UpperCased(result.detected_source), "->",
                                  UpperCased(target_language), "]">>)
           /\ result.detected_source = "fr" =>
                  Contains(content, <<"[", "FR", "->", "PT", "]">>)

\* a reply to a post whose language was detected as "fr"
C21_Witness ==
    \E k \in PostCalls :
        /\ TranslationOf(calls[k].item).detected_source = "fr"
        /\ Contains(ReplyOf(k).object.content, <<"[", "FR", "->", "PT", "]">>)
        /\ Contains(ReplyOf(k).object.content, <<"T">>)

(* ---------------------------------------------------------------------- *)
(* C22: when the backend's answer has no detected source language,         *)
(* translate_text returns "?" for it and raises nothing; handle_create     *)
(* goes on to the actor fetch, and the reply it composes and posts has "?" *)
(* as the SRC of its marker.                                               *)
(* ---------------------------------------------------------------------- *)
SourceUnknown(i) ==
    \E k \in 1..Len(outcomes) :
        /\ outcomes[k].item = i
        /\ outcomes[k].op = "translate_text"
        /\ outcomes[k].result.detected_source = "?"

C22_MissingSourceIsSentinel ==
    /\ \A resp \in BackendResponses :
          (resp.kind = "ok" /\ resp.status = 200 /\ resp.detected = Absent) =>
              LET r == translate_text(<<"w">>, Absent, resp)
              IN r.raised = "" /\ r.detected_source = "?" /\ r.translated = resp.translatedText
    /\ \A i \in Ids : SourceUnknown(i) =>
          /\ ~TranslateFailed(i)
          /\ HasDomain(enqueued[i].actor) => CallsOf(i, "actor.fetch") # {}
          /\ \A o \in 1..Len(outcomes) :
                (outcomes[o].item = i /\ outcomes[o].op = "get_bot_keys"
                    /\ ~NoRsaKey(outcomes[o].keys)) => CallsOf(i, "post") # {}
          /\ \A k \in CallsOf(i, "post") :
                Contains(ReplyOf(k).object.content, <<"[", "?", "->", "PT", "]">>)
          /\ \A e \in ErrorsOf(i, "run_worker") :
                log[e].detail \in FetchFaults \cup {"IndexError"}

\* a reply with "?" in its marker has been posted and accepted
C22_Witness ==
    \E k \in PostCalls :
        /\ SourceUnknown(calls[k].item)
        /\ Contains(ReplyOf(k).object.content, <<"[", "?", "->", "PT", "]">>)
        /\ \E o \in 1..Len(outcomes) :
              /\ outcomes[o].item = calls[k].item
              /\ outcomes[o].op = "post"
              /\ outcomes[o].raised = ""
              /\ outcomes[o].status = 202

(* ---------------------------------------------------------------------- *)
(* translate_text called on its own (app/services/translate.py), with the  *)
(* texts, targets and backend answers of tests/test_translate.py: calls    *)
(* records each call and the requests it sends, outcomes what it returned  *)
(* or raised.                                                              *)
(* ---------------------------------------------------------------------- *)
MaxCalls == 2

Texts == {<<"Hello">>, <<"Ola">>}
Targets == {Absent, "", "en"}

\* raise_for_status raises for every status that is not 2xx
TranslateResponses ==
    BackendResponses \cup
        { [kind |-> "ok", status |-> 302, translatedText |-> "", detected |-> Absent] }

TranslateCalls == {k \in 1..Len(calls) : calls[k].op = "translate_text"}

TranslateText(text, target, resp) ==
    LET n == Cardinality(TranslateCalls) + 1
        r == translate_text(text, target, resp)
        requests == BackendRequests(r)
    IN /\ n <= MaxCalls
       /\ calls' = calls \o <<Call("translate_text", n, <<text, target>>)>>
                         \o [k \in 1..Len(requests) |->
                                Call("client.post", n,
                                     <<requests[k].q, requests[k].target, requests[k].format>>)]
       /\ outcomes' = Append(outcomes, TranslateOutcome(n, r))
       /\ UNCHANGED <<queue, unfinished, pc, cur, loc, enqueued, handled, ended, acked,
                      log, responses, lifespan>>

TranslateNext ==
    \E text \in Texts, target \in Targets, resp \in TranslateResponses :
        TranslateText(text, target, resp)

TranslateSpec == Init /\ [][TranslateNext]_vars

\* the target argument of call n, and the requests call n sent
TargetArg(n) ==
    LET k == CHOOSE c \in TranslateCalls : calls[c].item = n IN calls[k].arg[2]
RequestsOf(n) == CallsOf(n, "client.post")

(* ---------------------------------------------------------------------- *)
(* C23: the target sent to the backend is the target argument when one is  *)
(* passed, and settings.target_language when none is passed (None; the     *)
(* empty string is falsy too and counts as none).                          *)
(* ---------------------------------------------------------------------- *)
C23_TargetSent ==
    \A c \in TranslateCalls :
        \A k \in RequestsOf(calls[c].item) :
            LET target == TargetArg(calls[c].item)
                sent == calls[k].arg[2]
            IN /\ target \notin {Absent, ""} => sent = target
               /\ target \in {Absent, ""} => sent = target_language
               /\ calls[k].arg[1] = calls[c].arg[1]

\* one call has passed "en" and one has passed no target
C23_Witness ==
    /\ \E c \in TranslateCalls :
          /\ calls[c].arg[2] = "en"
          /\ \E k \in RequestsOf(calls[c].item) : calls[k].arg[2] = "en"
    /\ \E c \in TranslateCalls :
          /\ calls[c].arg[2] = Absent
          /\ \E k \in RequestsOf(calls[c].item) : calls[k].arg[2] = "pt"

(* ---------------------------------------------------------------------- *)
(* C24: each call of translate_text sends exactly one request; when the    *)
(* backend answers with a status that is not 2xx, or does not answer in    *)
(* time, the call raises and returns no result.                            *)
(* ---------------------------------------------------------------------- *)
BackendFailed(resp) == resp.kind = "timeout" \/ resp.status < 200 \/ resp.status > 299

C24_OneRequestNoRetry ==
    /\ \A c \in TranslateCalls : Cardinality(RequestsOf(calls[c].item)) = 1
    /\ \A o \in 1..Len(outcomes) :
          (outcomes[o].op = "translate_text" /\ outcomes[o].raised # "") =>
              outcomes[o].result = NoResult
    /\ \A text \in Texts, target \in Targets, resp \in TranslateResponses :
          LET r == translate_text(text, target, resp)
          IN /\ BackendFailed(resp) <=> r.raised # ""
             /\ resp.kind = "timeout" => r.raised = "httpx.TimeoutException"
             /\ (resp.kind # "timeout" /\ BackendFailed(resp)) =>
                    r.raised = "httpx.HTTPStatusError"
             /\ r.raised # "" => r.translated = "" /\ r.detected_source = ""

\* a call that raised on a 403 or a timeout, having sent one request
C24_Witness ==
    \E o \in 1..Len(outcomes) :
        /\ outcomes[o].op = "translate_text"
        /\ outcomes[o].raised \in {"httpx.HTTPStatusError", "httpx.TimeoutException"}
        /\ outcomes[o].result = NoResult
        /\ Cardinality(RequestsOf(outcomes[o].item)) = 1
        /\ Len(outcomes) = MaxCalls

(* ---------------------------------------------------------------------- *)
(* C25: an activity whose object is not a Note, once passed to             *)
(* handle_create, has ended by a normal return with no call to any         *)
(* collaborator and no log record; task_done() was called for it and the   *)
(* worker is still running.                                                *)
(* ---------------------------------------------------------------------- *)
C25_NonNoteIgnored ==
    \A i \in Ids : (~enqueued[i].isNote /\ Handled(i)) =>
        /\ EndedAs(i, "returned")
        /\ ~EndedAs(i, "raised")
        /\ \A k \in 1..Len(calls) : calls[k].item # i
        /\ \A k \in 1..Len(outcomes) : outcomes[k].item # i
        /\ \A k \in 1..Len(log) : log[k].item # i
        /\ Count(i, acked) = 1
        /\ WorkerAlive

\* a non-Note object whose content mentions the bot and has text was handled
C25_Witness ==
    \E i \in Ids :
        /\ ~enqueued[i].isNote
        /\ MentionsBot(enqueued[i].body)
        /\ plain_text_of(enqueued[i].body) # <<>>
        /\ Handled(i)
        /\ InSeq(i, acked)

(* ---------------------------------------------------------------------- *)
(* C26: no reply is posted for an activity whose author is the bot's own   *)
(* actor URL.  handle_create does not compare activity.actor with          *)
(* bot_actor_url, so this does not hold: see C26_SelfReplyPosted.          *)
(* ---------------------------------------------------------------------- *)
C26_NoSelfReply ==
    \A i \in Ids : enqueued[i].actor = bot_author_url =>
        /\ CallsOf(i, "actor.fetch") = {}
        /\ CallsOf(i, "post") = {}

\* the state the code reaches: a reply to the bot's own post was posted to
\* the bot's own inbox, addressed to the bot and mentioning it
C26_SelfReplyPosted ==
    \E k \in PostCalls :
        /\ TriggerOf(k).actor = bot_author_url
        /\ calls[k].arg[1] = InboxOf(bot_author_url)
        /\ ReplyOf(k).to = <<bot_author_url>>

(* ---------------------------------------------------------------------- *)
(* C27: the text passed to translate_text has no markup and no text of a   *)
(* mention span, no whitespace at either end, and one space, never more,   *)
(* between its words.  get_text(separator=" ") puts the separator between  *)
(* strings that keep their own spaces, so the last part does not hold: see *)
(* C27_DoubledSpace.                                                       *)
(* ---------------------------------------------------------------------- *)
TextChars == {"w", "u", "@", "b", " "}

C27_SingleSpaced ==
    \A k \in 1..Len(calls) : calls[k].op = "translate_text" =>
        LET text == calls[k].arg[1]
        IN /\ \A j \in 1..Len(text) : text[j] \in TextChars
           /\ text # <<>>
           /\ Head(text) # " " /\ text[Len(text)] # " "
           /\ ~Contains(text, <<" ", " ">>)

\* the state the code reaches: the text submitted has two spaces in a row
C27_DoubledSpace ==
    \E k \in 1..Len(calls) :
        /\ calls[k].op = "translate_text"
        /\ enqueued[calls[k].item].body = <<"AB", "SP", "W">>
        /\ calls[k].arg[1] = <<"@", "b", " ", " ", "w">>

(* ---------------------------------------------------------------------- *)
(* C28: the key a post is signed with is the first RSA key, in list order, *)
(* of the keys get_bot_keys returned: keys of another kind before it are   *)
(* skipped, and no key after it is used.                                   *)
(* ---------------------------------------------------------------------- *)
KeysOf(i) ==
    LET o == CHOOSE n \in 1..Len(outcomes) :
                 outcomes[n].item = i /\ outcomes[n].op = "get_bot_keys"
    IN outcomes[o].keys

FirstRsa(keys) ==
    CHOOSE j \in 1..Len(keys) :
        keys[j].kind = "rsa" /\ \A m \in 1..(j - 1) : keys[m].kind # "rsa"

C28_FirstRsaKeySigns ==
    \A k \in PostCalls :
        LET keys == KeysOf(calls[k].item)
            sig == calls[k].arg[5][1]
        IN /\ ~NoRsaKey(keys)
           /\ sig.key_id = keys[FirstRsa(keys)].key_id
           /\ sig.private_key = keys[FirstRsa(keys)].private_key
           /\ calls[k].arg[2] = keys[FirstRsa(keys)].key_id
           /\ \A m \in 1..Len(keys) : m # FirstRsa(keys) =>
                 /\ sig.key_id # keys[m].key_id
                 /\ sig.private_key # keys[m].private_key

\* a post signed with the second of three keys: the first is not an RSA key,
\* the third is one
C28_Witness ==
    \E k \in PostCalls :
        /\ KeysOf(calls[k].item) = <<OtherKey, RsaKey2, RsaKey>>
        /\ calls[k].arg[5][1].key_id = "second-key"
        /\ calls[k].arg[5][1].private_key = "rsa-2"

(* ---------------------------------------------------------------------- *)
(* C29: an item whose post completed has exactly one post call: to the     *)
(* inbox of the actor record fetched for the author, with the reply Create *)
(* as body, sign_with draft-cavage and one signature, made of the key id   *)
(* and the private key of the selected key.                                *)
(* ---------------------------------------------------------------------- *)
PostCompleted(i) ==
    \E o \in 1..Len(outcomes) :
        outcomes[o].item = i /\ outcomes[o].op = "post" /\ outcomes[o].raised = ""

C29_OneSignedTransmission ==
    \A i \in Ids : PostCompleted(i) =>
        /\ Cardinality(CallsOf(i, "post")) = 1
        /\ \A k \in CallsOf(i, "post") :
              LET author == enqueued[i].actor
                  signatures == calls[k].arg[5]
              IN /\ calls[k].arg[1] = RemoteActor(author).inbox
                 /\ author = Fulano => calls[k].arg[1] = Fulano \o <<"/", "inbox">>
                 /\ calls[k].arg[3] = "draft-cavage"
                 /\ ReplyOf(k).actor = bot_actor_url
                 /\ ReplyOf(k).to = <<author>>
                 /\ ReplyOf(k).object.in_reply_to.id = enqueued[i].note_id
                 /\ Len(signatures) = 1
                 /\ signatures[1].key_id = calls[k].arg[2]
                 /\ \E m \in 1..Len(KeysOf(i)) :
                       /\ KeysOf(i)[m].kind = "rsa"
                       /\ KeysOf(i)[m].key_id = signatures[1].key_id
                       /\ KeysOf(i)[m].private_key = signatures[1].private_key

\* a completed post signed with the RSA key that came second in the list
C29_Witness ==
    \E i \in Ids :
        /\ PostCompleted(i)
        /\ KeysOf(i) = <<OtherKey, RsaKey2, RsaKey>>
        /\ \E k \in CallsOf(i, "post") :
              /\ calls[k].arg[1] = Fulano \o <<"/", "inbox">>
              /\ calls[k].arg[5] = << [key_id |-> "second-key", private_key |-> "rsa-2"] >>

(* ---------------------------------------------------------------------- *)
(* The application lifetime from its start (app/main.py, lifespan):        *)
(* init_db, then create_task(run_worker()) and the yield, then the system  *)
(* above, then worker_task.cancel().  lifespan is "starting" before        *)
(* init_db has returned, "db_ready" after it, "failed" if it raised        *)
(* (startup is aborted there); calls also records init_db and create_task. *)
(* ---------------------------------------------------------------------- *)
InitDbFaults == {"sqlalchemy.exc.OperationalError"}

LifespanInit ==
    /\ queue = activity_queue
    /\ unfinished = 0
    /\ pc = "not_started"
    /\ cur = NoItem
    /\ loc = NoLoc
    /\ enqueued = <<>>
    /\ handled = <<>>
    /\ ended = <<>>
    /\ acked = <<>>
    /\ calls = <<>>
    /\ log = <<>>
    /\ outcomes = <<>>
    /\ responses = <<>>
    /\ lifespan = "starting"

\* await app.database.init_db() returns
init_db_returns ==
    /\ lifespan = "starting"
    /\ lifespan' = "db_ready"
    /\ calls' = Append(calls, Call("init_db", 0, <<>>))
    /\ outcomes' = Append(outcomes, Outcome("init_db", 0, "", 0, <<>>))
    /\ UNCHANGED <<queue, unfinished, pc, cur, loc, enqueued, handled, ended, acked,
                   log, responses>>

\* await app.database.init_db() raises: lifespan ends before create_task
init_db_raises(e) ==
    /\ lifespan = "starting"
    /\ lifespan' = "failed"
    /\ calls' = Append(calls, Call("init_db", 0, <<>>))
    /\ outcomes' = Append(outcomes, Outcome("init_db", 0, e, 0, <<>>))
    /\ UNCHANGED <<queue, unfinished, pc, cur, loc, enqueued, handled, ended, acked,
                   log, responses>>

\* variant: the task is created without waiting for init_db
create_worker_task_Unordered ==
    /\ lifespan \in {"starting", "db_ready"}
    /\ pc = "not_started"
    /\ lifespan' = "running"
    /\ pc' = "created"
    /\ calls' = Append(calls, Call("create_task", 0, <<"run_worker">>))
    /\ UNCHANGED <<queue, unfinished, cur, loc, enqueued, handled, ended, acked,
                   log, outcomes, responses>>

\* worker_task = asyncio.create_task(run_worker()); yield
create_worker_task ==
    /\ lifespan = "db_ready"
    /\ pc = "not_started"
    /\ lifespan' = "running"
    /\ pc' = "created"
    /\ calls' = Append(calls, Call("create_task", 0, <<"run_worker">>))
    /\ UNCHANGED <<queue, unfinished, cur, loc, enqueued, handled, ended, acked,
                   log, outcomes, responses>>

\* the task's first step: log.info("Worker de inbox iniciado"), while True
run_worker_starts ==
    /\ pc = "created"
    /\ pc' = "idle"
    /\ log' = Append(log, LogRec("info", "run_worker", 0, "Worker de inbox iniciado",
                                 <<>>, ""))
    /\ UNCHANGED <<queue, unfinished, cur, loc, enqueued, handled, ended, acked,
                   calls, outcomes, responses, lifespan>>

\* requests are served once the startup has completed
Started == lifespan \in {"running", "shutdown"}

LifespanNext ==
    \/ init_db_returns
    \/ \E e \in InitDbFaults : init_db_raises(e)
    \/ create_worker_task
    \/ run_worker_starts
    \/ \E post \in Posts, actor \in Authors : Started /\ on_create(post, actor)
    \/ Worker
    \/ Cancel

LifespanSpec == LifespanInit /\ [][LifespanNext]_vars

TasksCreated == {k \in 1..Len(calls) : calls[k].op = "create_task"}
InitDbReturned ==
    \E o \in 1..Len(outcomes) : outcomes[o].op = "init_db" /\ outcomes[o].raised = ""

(* ---------------------------------------------------------------------- *)
(* C30: the worker task is created only after init_db has returned, at     *)
(* most one task is ever created (exactly one once the startup has         *)
(* completed, and the worker runs only as that task), and the shutdown     *)
(* step cancels it: the task ends there, unless the cancellation falls on  *)
(* a get() that a put has just woken (CancelLostInWakeup).                 *)
(* ---------------------------------------------------------------------- *)
C30_OneWorkerAfterInitDb ==
    /\ [](/\ Cardinality(TasksCreated) <= 1
          /\ \A k \in TasksCreated :
                /\ InitDbReturned
                /\ \E j \in 1..(k - 1) : calls[j].op = "init_db"
          /\ Started <=> Cardinality(TasksCreated) = 1
          /\ pc # "not_started" => Cardinality(TasksCreated) = 1
          /\ lifespan = "failed" => pc = "not_started")
    /\ [][(lifespan = "running" /\ lifespan' = "shutdown") =>
              (pc' = "cancelled" \/ pc = "woken")]_vars

\* the application has started, handled an item and shut down
C30_Witness ==
    /\ lifespan = "shutdown"
    /\ pc = "cancelled"
    /\ InitDbReturned
    /\ Cardinality(TasksCreated) = 1
    /\ Handled(1)

(* ---------------------------------------------------------------------- *)
(* on_follow called on its own (app/activitypub/handlers.py lines 32-60).  *)
(* The actor of the Follow is a string identifier, an actor object, or     *)
(* something else (a link, nothing); client.actor.fetch returns an actor,  *)
(* returns None or raises; ctx.send returns or raises.  calls records the  *)
(* handler's calls, outcomes what each call of on_follow answered          *)
(* (status 0 when it raised).                                              *)
(* ---------------------------------------------------------------------- *)
MaxFollows == 2

Beltrano == <<"https:", "/", "/", "m.example", "/", "users", "/", "beltrano">>
Followers == {Fulano, Beltrano}

FollowActors ==
    {[kind |-> kind, id |-> id] : kind \in {"str", "actor"}, id \in Followers}
        \cup {[kind |-> "other", id |-> <<>>]}

NoActor == [id |-> <<>>, preferred_username |-> <<>>, inbox |-> <<>>]
FollowFetched == {"actor", "None"} \cup FetchFaults
\* ctx.send returns ("") or raises
SendOutcomes == {"", "send failed"}

Follow(n, actor) == [id |-> <<"https://m.example/follows/", n>>, type |-> "Follow",
                     actor |-> actor]

\* variant: the follower is fetched whatever the actor of the Follow is
NeedsFetch_Always(actor) == TRUE

\* if isinstance(activity.actor, str): ... fetch
NeedsFetch(actor) == actor.kind = "str"

\* follower_actor after lines 40-45
follower_actor(actor, fetched) ==
    IF NeedsFetch(actor)
      THEN (IF fetched = "actor" /\ actor.id # <<>> THEN RemoteActor(actor.id) ELSE NoActor)
    ELSE IF actor.kind = "actor" THEN RemoteActor(actor.id)
    ELSE NoActor

\* accept = Accept(id=f"{actor.id}#accept/{activity.id}", actor=actor.id, object=activity)
AcceptOf(activity) ==
    [id |-> bot_actor_url \o <<"#accept/">> \o activity.id,
     type |-> "Accept", actor |-> bot_actor_url, object |-> activity]

FollowCalls == {k \in 1..Len(calls) : calls[k].op = "on_follow"}

on_follow(actor, fetched, sent) ==
    LET n == Cardinality(FollowCalls) + 1
        activity == Follow(n, actor)
        received == <<Call("on_follow", n, <<activity>>)>>
        fetch == IF NeedsFetch(actor) THEN <<Call("actor.fetch", n, actor.id)>> ELSE <<>>
        follower == follower_actor(actor, fetched)
        send == <<Call("get_bot_keys", n, <<>>),
                  Call("ctx.send", n, <<(<<RsaKey>>), follower.id, AcceptOf(activity)>>)>>
    IN /\ n <= MaxFollows
       /\ IF NeedsFetch(actor) /\ fetched \in FetchFaults
            THEN /\ calls' = calls \o received \o fetch
                 /\ outcomes' = Append(outcomes, Outcome("on_follow", n, fetched, 0, <<>>))
                 /\ UNCHANGED <<log, responses>>
          ELSE IF follower = NoActor
            THEN /\ calls' = calls \o received \o fetch
                 /\ outcomes' = Append(outcomes, Outcome("on_follow", n, "", 400, <<>>))
                 /\ responses' = Append(responses, 400)
                 /\ UNCHANGED log
          ELSE IF sent # ""
            THEN /\ calls' = calls \o received \o fetch \o send
                 /\ outcomes' = Append(outcomes, Outcome("on_follow", n, sent, 0, <<>>))
                 /\ UNCHANGED <<log, responses>>
          ELSE /\ calls' = calls \o received \o fetch \o send
               /\ outcomes' = Append(outcomes, Outcome("on_follow", n, "", 202, <<>>))
               /\ responses' = Append(responses, 202)
               /\ log' = Append(log, LogRec("info", "on_follow", n, "Follow aceito",
                                            follower.id, ""))
       /\ UNCHANGED <<queue, unfinished, pc, cur, loc, enqueued, handled, ended, acked,
                      lifespan>>

FollowNext ==
    \E actor \in FollowActors, fetched \in FollowFetched, sent \in SendOutcomes :
        on_follow(actor, fetched, sent)

FollowSpec == Init /\ [][FollowNext]_vars

FollowOf(n) == LET k == CHOOSE c \in FollowCalls : calls[c].item = n IN calls[k].arg[1]
AnsweredBy(n) ==
    LET o == CHOOSE m \in 1..Len(outcomes) :
                 outcomes[m].op = "on_follow" /\ outcomes[m].item = n
    IN outcomes[o]

MaxRequests == 2

Identifiers == {bot_username, <<"B">>, bot_username \o <<"2">>, <<"x">>, <<>>}
Hosts == {domain, <<"D">>, <<"o">>}

\* what load_private_key finds at settings.private_key_path
KeyFiles == {"rsa", "ed25519", "missing"}

\* variant: the identifier is not compared
IsBot_Anyone(identifier) == TRUE

\* identifier == settings.bot_username
IsBot(identifier) == identifier = bot_username

\* variant: only the username is compared
WebfingerMatches_UserOnly(username, host) == username = bot_username

\* acct.username == settings.bot_username and acct.host == settings.domain
WebfingerMatches(username, host) == username = bot_username /\ host = domain

\* key_id = f"https://{settings.domain}/users/{settings.bot_username}#main-key"
MainKeyId == bot_actor_url \o <<"#main-key">>

Requests == {k \in 1..Len(calls) :
                calls[k].op \in {"get_actor", "get_followers", "get_outbox", "webfinger",
                                 "get_keys_for_actor"}}

\* an endpoint answers status to the request (op, arg)
Answer(op, arg, status) ==
    LET n == Cardinality(Requests) + 1
    IN /\ n <= MaxRequests
       /\ calls' = Append(calls, Call(op, n, arg))
       /\ outcomes' = Append(outcomes, Outcome(op, n, "", status, <<>>))
       /\ responses' = Append(responses, status)
       /\ UNCHANGED <<queue, unfinished, pc, cur, loc, enqueued, handled, ended, acked,
                      log, lifespan>>

get_actor(identifier) ==
    Answer("get_actor", <<identifier>>, IF IsBot(identifier) THEN 200 ELSE 404)

get_followers(identifier) ==
    Answer("get_followers", <<identifier>>, IF ~IsBot(identifier) THEN 404 ELSE 200)

get_outbox(identifier) ==
    Answer("get_outbox", <<identifier>>, IF ~IsBot(identifier) THEN 404 ELSE 200)

webfinger(username, host) ==
    Answer("webfinger", <<username, host>>,
           IF WebfingerMatches(username, host) THEN 200 ELSE 404)

\* the list returned; load_private_key is called only for the bot and raises
\* when the file is missing
get_keys_for_actor(identifier, keyfile) ==
    LET n == Cardinality(Requests) + 1
        raised == IF IsBot(identifier) /\ keyfile = "missing"
                    THEN "FileNotFoundError" ELSE ""
        keys == IF IsBot(identifier) /\ keyfile # "missing"
                  THEN << [key_id |-> MainKeyId, kind |-> keyfile, private_key |-> keyfile] >>
                  ELSE <<>>
    IN /\ n <= MaxRequests
       /\ calls' = Append(calls, Call("get_keys_for_actor", n, <<identifier>>))
       /\ outcomes' = Append(outcomes, Outcome("get_keys_for_actor", n, raised, 0, keys))
       /\ UNCHANGED <<queue, unfinished, pc, cur, loc, enqueued, handled, ended, acked,
                      log, responses, lifespan>>

DiscoveryNext ==
    \/ \E identifier \in Identifiers : get_actor(identifier)
    \/ \E identifier \in Identifiers : get_followers(identifier)
    \/ \E identifier \in Identifiers : get_outbox(identifier)
    \/ \E username \in Identifiers, host \in Hosts : webfinger(username, host)
    \/ \E identifier \in Identifiers, keyfile \in KeyFiles :
          get_keys_for_actor(identifier, keyfile)

DiscoverySpec == Init /\ [][DiscoveryNext]_vars

OutcomeOf(k) ==
    LET o == CHOOSE m \in 1..Len(outcomes) :
                 outcomes[m].op = calls[k].op /\ outcomes[m].item = calls[k].item
    IN outcomes[o]

(* ---------------------------------------------------------------------- *)
(* C32: get_keys_for_actor, when it returns, returns one key whose key id  *)
(* is https://<domain>/users/<bot_username>#main-key if the identifier is  *)
(* the bot's username, and the empty list for any other identifier.        *)
(* ---------------------------------------------------------------------- *)
C32_KeysOnlyForBot ==
    \A k \in Requests : calls[k].op = "get_keys_for_actor" =>
        LET identifier == calls[k].arg[1]
            answer == OutcomeOf(k)
        IN /\ (identifier = <<"b">> /\ answer.raised = "") =>
                 /\ Len(answer.keys) = 1
                 /\ answer.keys[1].key_id = <<"https://", "d", "/users/", "b", "#main-key">>
           /\ identifier # <<"b">> => (answer.keys = <<>> /\ answer.raised = "")
           /\ answer.raised # "" => answer.keys = <<>>

\* the keys were asked for the bot and for a username that differs by a suffix
C32_Witness ==
    /\ \E k \in Requests :
          /\ calls[k].op = "get_keys_for_actor"
          /\ calls[k].arg[1] = bot_username
          /\ Len(OutcomeOf(k).keys) = 1
    /\ \E k \in Requests :
          /\ calls[k].op = "get_keys_for_actor"
          /\ calls[k].arg[1] = bot_username \o <<"2">>
          /\ OutcomeOf(k).keys = <<>>

(* ---------------------------------------------------------------------- *)
(* C33: the actor, followers and outbox endpoints answer 200 exactly when  *)
(* the identifier of the path is the bot's username; webfinger answers 200 *)
(* exactly when the username is the bot's and the host is the configured   *)
(* domain; every other request is answered 404.                            *)
(* ---------------------------------------------------------------------- *)
C33_OnlyOwnIdentity ==
    \A k \in Requests :
        LET status == OutcomeOf(k).status
        IN /\ calls[k].op \in {"get_actor", "get_followers", "get_outbox"} =>
                 /\ status = 200 <=> calls[k].arg[1] = <<"b">>
                 /\ status \in {200, 404}
           /\ calls[k].op = "webfinger" =>
                 /\ status = 200 <=> (calls[k].arg[1] = <<"b">> /\ calls[k].arg[2] = <<"d">>)
                 /\ status \in {200, 404}

\* webfinger was asked for the bot at its domain and for the bot at another host
C33_Witness ==
    /\ \E k \in Requests :
          /\ calls[k].op = "webfinger"
          /\ calls[k].arg = <<bot_username, domain>>
          /\ OutcomeOf(k).status = 200
    /\ \E k \in Requests :
          /\ calls[k].op = "webfinger"
          /\ calls[k].arg = <<bot_username, <<"o">>>>
          /\ OutcomeOf(k).status = 404

(* ---------------------------------------------------------------------- *)
(* C34: the calls made for one item come in the order translate_text,      *)
(* actor fetch, get_bot_keys, post; the actor fetch is made only after     *)
(* translate_text has returned, the mention name of a reply is built from  *)
(* the actor record the fetch returned, and a post is made only when       *)
(* translate_text and the fetch have returned and an RSA key was found.    *)
(* ---------------------------------------------------------------------- *)
HandleOps == <<"translate_text", "actor.fetch", "get_bot_keys", "post">>

Returned(i, op) ==
    \E o \in 1..Len(outcomes) :
        outcomes[o].item = i /\ outcomes[o].op = op /\ outcomes[o].raised = ""

C34_CallOrder ==
    \A i \in Ids :
        /\ \A a \in 1..4, b \in 1..4 : a < b =>
              \A k \in CallsOf(i, HandleOps[a]), n \in CallsOf(i, HandleOps[b]) : k < n
        /\ \A k \in 1..Len(calls) : calls[k].item = i =>
              \E a \in 1..4 : calls[k].op = HandleOps[a]
        /\ CallsOf(i, "actor.fetch") # {} =>
              (CallsOf(i, "translate_text") # {} /\ Returned(i, "translate_text"))
        /\ CallsOf(i, "get_bot_keys") # {} =>
              (CallsOf(i, "actor.fetch") # {} /\ Returned(i, "actor.fetch"))
        /\ \A k \in CallsOf(i, "post") :
              /\ Returned(i, "translate_text")
              /\ Returned(i, "actor.fetch")
              /\ CallsOf(i, "get_bot_keys") # {}
              /\ Returned(i, "get_bot_keys")
              /\ ~NoRsaKey(KeysOf(i))
              /\ ReplyOf(k).object.tag[1].name =
                    <<"@">> \o RemoteActor(enqueued[i].actor).preferred_username
                        \o <<"@">> \o Split(enqueued[i].actor, "/")[3]

\* an item for which all four calls were made
C34_Witness ==
    \E i \in Ids :
        /\ \A a \in 1..4 : Cardinality(CallsOf(i, HandleOps[a])) = 1
        /\ Returned(i, "post")

(* ---------------------------------------------------------------------- *)
(* C35: when the actor fetch raises for an item whose translation has      *)
(* returned, handle_create ends by raising (it does not return), no keys   *)
(* are asked for and nothing is posted for that item, and the worker keeps *)
(* running: every other item is handled unless the worker is cancelled.    *)
(* ---------------------------------------------------------------------- *)
FetchFailed(i) ==
    \E k \in 1..Len(outcomes) :
        outcomes[k].item = i /\ outcomes[k].op = "actor.fetch" /\ outcomes[k].raised # ""

C35_FetchFaultPropagates ==
    /\ [](\A i \in Ids : FetchFailed(i) =>
            /\ Returned(i, "translate_text")
            /\ EndedAs(i, "raised")
            /\ ~EndedAs(i, "returned")
            /\ CallsOf(i, "get_bot_keys") = {}
            /\ CallsOf(i, "post") = {}
            /\ \A k \in 1..Len(log) : log[k].item = i => log[k].src = "run_worker"
            /\ pc # "finished")
    /\ []<>((\E i \in Ids : FetchFailed(i)) => AllHandledOrCancelled)

\* the fetch failed for the first item and the second was handled
C35_Witness ==
    /\ Len(enqueued) >= 2
    /\ FetchFailed(1)
    /\ Handled(2)
    /\ EndedAs(2, "returned")

(* ---------------------------------------------------------------------- *)
(* C36: a cancellation that ends the worker while it is blocked in         *)
(* wait_for(activity_queue.get()) takes nothing from the queue, and once   *)
(* the worker has exited the queue holds, in the order of their arrival,   *)
(* every activity that was put and never passed to handle_create.          *)
(* ---------------------------------------------------------------------- *)
NeverHandled == SelectSeq(enqueued, LAMBDA activity : ~Handled(activity.id))

C36_CancelKeepsQueue ==
    /\ [](pc = "cancelled" => queue = NeverHandled)
    /\ [][(pc \in {"waiting", "woken"} /\ pc' = "cancelled") =>
              (queue' = queue /\ handled' = handled /\ enqueued' = enqueued)]_vars

\* the worker has exited with an activity still queued, the first one
\* handled before
C36_Witness ==
    /\ pc = "cancelled"
    /\ queue # <<>>
    /\ queue = NeverHandled
    /\ handled = <<1>>

(* ---------------------------------------------------------------------- *)
(* C37: handle_create calls translate_text without a target, the request   *)
(* to the backend carries the configured target language, and the DST of   *)
(* the marker of every reply is that same language in upper case.          *)
(* ---------------------------------------------------------------------- *)
SentTarget(i) ==
    LET o == CHOOSE n \in 1..Len(outcomes) :
                 outcomes[n].item = i /\ outcomes[n].op = "translate_text"
    IN outcomes[o].sent

C37_MarkerMatchesRequest ==
    /\ \A k \in 1..Len(calls) : calls[k].op = "translate_text" => calls[k].arg[2] = Absent
    /\ \A o \in 1..Len(outcomes) :
          outcomes[o].op = "translate_text" => outcomes[o].sent = "pt"
    /\ \A k \in PostCalls :
          /\ UpperCased(SentTarget(calls[k].item)) = "PT"
          /\ Contains(ReplyOf(k).object.content,
                      <<"->", UpperCased(SentTarget(calls[k].item)), "]">>)

\* a reply was posted for an item translated into "pt"
C37_Witness ==
    \E k \in PostCalls :
        /\ SentTarget(calls[k].item) = "pt"
        /\ Contains(ReplyOf(k).object.content, <<"->", "PT", "]">>)
        /\ CallsOf(calls[k].item, "translate_text") # {}

(* ---------------------------------------------------------------------- *)
(* C38: a Note is taken up for translation only if its content mentions    *)
(* the bot itself: a content whose only reference is to another account is *)
(* never translated.  The test of line 47 is a substring test, and the     *)
(* actor URL of an account whose username begins with the bot's contains   *)
(* the bot's URL, so this does not hold: see C38_SiblingEligible.          *)
(* ---------------------------------------------------------------------- *)
RefersToBot(body) ==
    body # NoContent /\ \E k \in 1..Len(body) : body[k] \in {"MB", "AB", "UB"}

C38_OnlyOwnMention ==
    \A i \in Ids :
        /\ CallsOf(i, "translate_text") # {} => RefersToBot(enqueued[i].body)
        /\ (Handled(i) /\ enqueued[i].isNote /\ RefersToBot(enqueued[i].body)
               /\ plain_text_of(enqueued[i].body) # <<>>) =>
                  CallsOf(i, "translate_text") # {}

\* the state the code reaches: a Note that mentions only https://d/users/b2
\* was translated
C38_SiblingEligible ==
    \E i \in Ids :
        /\ enqueued[i].body = <<"MS", "W">>
        /\ ~Contains(content_html(enqueued[i].body), bot_actor_url \o <<">">>)
        /\ CallsOf(i, "translate_text") # {}

(* ---------------------------------------------------------------------- *)
(* C39: the text passed to translate_text is, whitespace apart, the text   *)
(* of the content outside the spans of class mention, in order: the text   *)
(* of every such span is left out, whichever account it mentions, and no   *)
(* other text is.                                                          *)
(* ---------------------------------------------------------------------- *)
\* the visible characters a body has outside its mention spans
KeptChars(tok) ==
    CASE tok = "W" -> <<"w">>
      [] tok = "UB" -> <<"u">>
      [] tok = "AB" -> <<"@", "b">>
      [] OTHER -> <<>>

TextOutsideMentions(body) == Flatten([k \in 1..Len(body) |-> KeptChars(body[k])])
Visible(text) == SelectSeq(text, LAMBDA ch : ch # " ")

C39_OnlyMentionSpansRemoved ==
    \A k \in 1..Len(calls) : calls[k].op = "translate_text" =>
        LET body == enqueued[calls[k].item].body
            text == calls[k].arg[1]
        IN /\ Visible(text) = TextOutsideMentions(body)
           /\ ~Contains(text, <<"@", "b", "2">>)
           /\ ~Contains(text, <<"@", "x">>)

\* a body with a mention of the bot, a mention of another account and a word
C39_Witness ==
    \E k \in 1..Len(calls) :
        /\ calls[k].op = "translate_text"
        /\ enqueued[calls[k].item].body = <<"MB", "MO", "W">>
        /\ calls[k].arg[1] = <<"w">>

====
